---- MODULE Spec2Model ----
(***************************************************************************)
(* Model of src/run.py: the Hydra entry point run() and the epoch loop of  *)
(* train_network().  Floating point losses are abstracted to the classes   *)
(* numpy distinguishes: a finite value, NaN, +inf and -inf.  Collaborators *)
(* imported from utils / modules (init_metric, update_metrics, train,      *)
(* construct_dataloaders, DecorNet) are modelled by their contract.        *)
(***************************************************************************)
EXTENDS Integers, Sequences, FiniteSets, TLC

VARIABLES entry, config, pc, wandb_inited, tv_dataset, model, optimizers,
          metrics, e, calls, stdout, result

vars == <<entry, config, pc, wandb_inited, tv_dataset, model, optimizers,
          metrics, e, calls, stdout, result>>

\* ------------------------------------------------------------------ bounds
MaxEpochs == 1

\* ------------------------------------------------------------ value domains
\* Python's None object (distinct from the string "None" Hydra delivers).
None == "<None>"

Datasets == {"MNIST", "CIFAR10", "CIFAR100", "TIN", "SVHN"}
RecognizedDatasets == {"MNIST", "CIFAR10", "CIFAR100", "TIN"}
\* Hydra delivers the method as a string; a direct caller passes None itself
HydraMethods == {"None", "copi", "foldiak"}
DirectMethods == {None, "copi", "foldiak"}
OptimizerTypes == {"Adam", "SGD", "RMSprop"}
EpochCounts == (-1)..MaxEpochs

\* float classes of a recorded loss
LossValues == {"0.5", "nan", "inf", "-inf"}
AccuracyValues == {"0.9"}

\* ---------------------------------------------------------- numpy helpers
isnan_nonfinite(x) == x \in {"nan", "inf", "-inf"}

isnan(x) == x = "nan"

Last(s) == s[Len(s)]

\* ------------------------------------------------- train_network, set-up
\* lines 40-46: string-to-class dispatch; unknown strings are kept as is
SelectDataset_noCIFAR100(dataset) ==
    IF dataset = "MNIST" THEN "torchvision.datasets.MNIST"
    ELSE IF dataset = "CIFAR10" THEN "torchvision.datasets.CIFAR10"
    ELSE dataset

SelectDataset(dataset) ==
    IF dataset = "MNIST" THEN "torchvision.datasets.MNIST"
    ELSE IF dataset = "CIFAR10" THEN "torchvision.datasets.CIFAR10"
    ELSE IF dataset = "CIFAR100" THEN "torchvision.datasets.CIFAR100"
    ELSE dataset

\* lines 61-70: three independent ifs applied in order to the defaults
InSize(tv) ==
    LET s0 == 28 * 28
        s1 == IF tv = "torchvision.datasets.CIFAR10" THEN 32 * 32 * 3 ELSE s0
        s2 == IF tv = "torchvision.datasets.CIFAR100" THEN 32 * 32 * 3 ELSE s1
        s3 == IF tv = "TIN" THEN 64 * 64 * 3 ELSE s2
    IN  s3

OutSize(tv) ==
    LET o0 == 10
        o2 == IF tv = "torchvision.datasets.CIFAR100" THEN 100 ELSE o0
        o3 == IF tv = "TIN" THEN 200 ELSE o2
    IN  o3

NoModel == [built |-> FALSE, in_size |-> 0, out_size |-> 0,
            decorrelation_method |-> None]

\* lines 73-82: constructor call (the class itself lives in modules)
DecorNet(in_size, out_size, decorrelation_method) ==
    [built |-> TRUE, in_size |-> in_size, out_size |-> out_size,
     decorrelation_method |-> decorrelation_method]

\* line 86
init_metric ==
    [train |-> [loss |-> <<>>, accuracy |-> <<>>],
     test  |-> [loss |-> <<>>, accuracy |-> <<>>]]

\* lines 89-98
FwdOptimizer(optimizer_type) ==
    IF optimizer_type = "Adam" THEN [kind |-> "Adam", params |-> "fwd"]
    ELSE IF optimizer_type = "SGD" THEN [kind |-> "SGD", params |-> "fwd"]
    ELSE [kind |-> None, params |-> None]

\* lines 100-103
MakeOptimizers_sameKind(optimizer_type, decorrelation_method) ==
    IF decorrelation_method # None
    THEN <<FwdOptimizer(optimizer_type),
           [kind |-> optimizer_type, params |-> "decor"]>>
    ELSE <<FwdOptimizer(optimizer_type)>>

MakeOptimizers(optimizer_type, decorrelation_method) ==
    IF decorrelation_method # None
    THEN Append(<<FwdOptimizer(optimizer_type)>>,
                [kind |-> "SGD", params |-> "decor"])
    ELSE <<FwdOptimizer(optimizer_type)>>

\* --------------------------------------------------- train_network, loop
\* line 116: e in range(nb_epochs + 1)
InRange_short(ep, nb_epochs) == ep < nb_epochs

InRange(ep, nb_epochs) == ep < nb_epochs + 1

\* line 139
TrainGuard_inclusive(ep, nb_epochs) == ep <= nb_epochs

TrainGuard(ep, nb_epochs) == ep < nb_epochs

\* lines 141-143
NaNDetected_testOnly(m) == isnan(Last(m.test.loss))

NaNDetected(m) ==
    isnan(Last(m.test.loss)) \/ isnan(Last(m.train.loss))

\* update_metrics: one loss and one accuracy appended to the given phase
update_metrics(m, phase, loss, acc) ==
    [m EXCEPT ![phase] = [loss     |-> Append(m[phase].loss, loss),
                          accuracy |-> Append(m[phase].accuracy, acc)]]

Call(op, ep) == [op |-> op, e |-> ep]

NaNMessage == "NaN detected, aborting training"

\* ------------------------------------------------------------ run(), 159-164
NormalizeMethod(m) == IF m = "None" THEN None ELSE m

IsFoldiak_never(m) == FALSE

IsFoldiak(m) == m = "foldiak"

\* ------------------------------------------------------------------- Init
Init ==
    /\ entry \in {"run", "train_network"}
    /\ config \in [dataset: Datasets,
                   decorrelation_method: HydraMethods \cup DirectMethods,
                   optimizer_type: OptimizerTypes, nb_epochs: EpochCounts]
    /\ config.decorrelation_method \in
          IF entry = "run" THEN HydraMethods ELSE DirectMethods
    /\ pc = IF entry = "run" THEN "run" ELSE "setup"
    /\ wandb_inited = FALSE
    /\ tv_dataset = None
    /\ model = NoModel
    /\ optimizers = <<>>
    /\ metrics = init_metric
    /\ e = 0
    /\ calls = <<>>
    /\ stdout = <<>>
    /\ result = <<>>

\* ---------------------------------------------------------------- actions
\* run(), lines 151-164, when the method is foldiak: exit()
RunExit ==
    /\ pc = "run"
    /\ IsFoldiak(NormalizeMethod(config.decorrelation_method))
    /\ wandb_inited' = TRUE
    /\ config' = [config EXCEPT !.decorrelation_method = NormalizeMethod(@)]
    /\ pc' = "exited"
    /\ UNCHANGED <<entry, tv_dataset, model, optimizers, metrics, e, calls,
                   stdout, result>>

\* run(), lines 151-166, otherwise: train_network is called
RunCall ==
    /\ pc = "run"
    /\ ~IsFoldiak(NormalizeMethod(config.decorrelation_method))
    /\ wandb_inited' = TRUE
    /\ config' = [config EXCEPT !.decorrelation_method = NormalizeMethod(@)]
    /\ pc' = "setup"
    /\ UNCHANGED <<entry, tv_dataset, model, optimizers, metrics, e, calls,
                   stdout, result>>

\* train_network, lines 32-113
Setup ==
    /\ pc = "setup"
    /\ tv_dataset' = SelectDataset(config.dataset)
    /\ calls' = Append(calls, Call("construct_dataloaders", 0))
    /\ model' = DecorNet(InSize(tv_dataset'), OutSize(tv_dataset'),
                         config.decorrelation_method)
    /\ metrics' = init_metric
    /\ optimizers' = MakeOptimizers(config.optimizer_type,
                                    config.decorrelation_method)
    /\ e' = 0
    /\ pc' = "for"
    /\ UNCHANGED <<entry, config, wandb_inited, stdout, result>>

\* line 116, next element of the range
ForEnter ==
    /\ pc = "for"
    /\ InRange(e, config.nb_epochs)
    /\ pc' = "eval_train"
    /\ UNCHANGED <<entry, config, wandb_inited, tv_dataset, model,
                   optimizers, metrics, e, calls, stdout, result>>

\* line 116, range exhausted
ForExhausted ==
    /\ pc = "for"
    /\ ~InRange(e, config.nb_epochs)
    /\ pc' = "return"
    /\ UNCHANGED <<entry, config, wandb_inited, tv_dataset, model,
                   optimizers, metrics, e, calls, stdout, result>>

\* lines 117-127
EvalTrain ==
    /\ pc = "eval_train"
    /\ \E loss \in LossValues, acc \in AccuracyValues :
          metrics' = update_metrics(metrics, "train", loss, acc)
    /\ calls' = Append(calls, Call("update_metrics_train", e))
    /\ pc' = "eval_test"
    /\ UNCHANGED <<entry, config, wandb_inited, tv_dataset, model,
                   optimizers, e, stdout, result>>

\* lines 128-138
EvalTest ==
    /\ pc = "eval_test"
    /\ \E loss \in LossValues, acc \in AccuracyValues :
          metrics' = update_metrics(metrics, "test", loss, acc)
    /\ calls' = Append(calls, Call("update_metrics_test", e))
    /\ pc' = "if_train"
    /\ UNCHANGED <<entry, config, wandb_inited, tv_dataset, model,
                   optimizers, e, stdout, result>>

\* lines 139-140, guard true
TrainPass ==
    /\ pc = "if_train"
    /\ TrainGuard(e, config.nb_epochs)
    /\ calls' = Append(calls, Call("train", e))
    /\ pc' = "if_nan"
    /\ UNCHANGED <<entry, config, wandb_inited, tv_dataset, model,
                   optimizers, metrics, e, stdout, result>>

\* line 139, guard false
TrainSkip ==
    /\ pc = "if_train"
    /\ ~TrainGuard(e, config.nb_epochs)
    /\ pc' = "if_nan"
    /\ UNCHANGED <<entry, config, wandb_inited, tv_dataset, model,
                   optimizers, metrics, e, calls, stdout, result>>

\* lines 141-145, condition true: print and break
NaNBreak ==
    /\ pc = "if_nan"
    /\ NaNDetected(metrics)
    /\ stdout' = Append(stdout, [text |-> NaNMessage, value |-> <<>>])
    /\ pc' = "return"
    /\ UNCHANGED <<entry, config, wandb_inited, tv_dataset, model,
                   optimizers, metrics, e, calls, result>>

\* lines 141-143, condition false: next iteration
NaNContinue ==
    /\ pc = "if_nan"
    /\ ~NaNDetected(metrics)
    /\ e' = e + 1
    /\ pc' = "for"
    /\ UNCHANGED <<entry, config, wandb_inited, tv_dataset, model,
                   optimizers, metrics, calls, stdout, result>>

\* line 146
Return ==
    /\ pc = "return"
    /\ result' = <<metrics>>
    /\ pc' = IF entry = "run" THEN "print" ELSE "done"
    /\ UNCHANGED <<entry, config, wandb_inited, tv_dataset, model,
                   optimizers, metrics, e, calls, stdout>>

\* line 184
RunPrint ==
    /\ pc = "print"
    /\ stdout' = Append(stdout, [text |-> "metrics", value |-> result])
    /\ pc' = "done"
    /\ UNCHANGED <<entry, config, wandb_inited, tv_dataset, model,
                   optimizers, metrics, e, calls, result>>

Next ==
    \/ RunExit
    \/ RunCall
    \/ Setup
    \/ ForEnter
    \/ ForExhausted
    \/ EvalTrain
    \/ EvalTest
    \/ TrainPass
    \/ TrainSkip
    \/ NaNBreak
    \/ NaNContinue
    \/ Return
    \/ RunPrint

Spec == Init /\ [][Next]_vars

\* ============================================================ properties
Returned == result # <<>>

NaNLoss(x) == x = "nan"

InfLoss(x) == x \in {"inf", "-inf"}

AllLens(m, n) ==
    /\ Len(m.train.loss) = n
    /\ Len(m.train.accuracy) = n
    /\ Len(m.test.loss) = n
    /\ Len(m.test.accuracy) = n

\* epoch index k-1 has a NaN / an infinite recorded loss in m
NaNAt(m, k) ==
    \/ k <= Len(m.train.loss) /\ NaNLoss(m.train.loss[k])
    \/ k <= Len(m.test.loss) /\ NaNLoss(m.test.loss[k])

InfAt(m, k) ==
    \/ k <= Len(m.train.loss) /\ InfLoss(m.train.loss[k])
    \/ k <= Len(m.test.loss) /\ InfLoss(m.test.loss[k])

Recorded(m) == 1..Len(m.train.loss)

TrainCalls == {j \in DOMAIN calls : calls[j].op = "train"}

EvalCalls == {j \in DOMAIN calls :
                 calls[j].op \in {"update_metrics_train", "update_metrics_test"}}

Printed(text) == \E i \in DOMAIN stdout : stdout[i].text = text

\* C1: when train_network returns from a run with nb_epochs >= 0 in which
\* every recorded train and test loss is finite, each of the four metric
\* sequences of the returned metrics has exactly nb_epochs + 1 entries.
C1_CompleteRunLength ==
    (/\ Returned
     /\ config.nb_epochs >= 0
     /\ \A k \in Recorded(result[1]) :
           ~NaNAt(result[1], k) /\ ~InfAt(result[1], k))
    => AllLens(result[1], config.nb_epochs + 1)

C1_Witness ==
    /\ Returned
    /\ config.nb_epochs >= 1
    /\ \A k \in Recorded(result[1]) :
          ~NaNAt(result[1], k) /\ ~InfAt(result[1], k)
    /\ AllLens(result[1], config.nb_epochs + 1)

\* C2: if the train or test loss recorded by the evaluation of epoch k-1 is
\* NaN, nothing of a later epoch is ever recorded or evaluated, and the
\* returned metric sequences all have exactly k entries.
C2_NaNStopsLoop ==
    \A k \in 1..Len(metrics.test.loss) :
       NaNAt(metrics, k) =>
          /\ Len(metrics.train.loss) = k
          /\ Len(metrics.test.loss) = k
          /\ \A j \in EvalCalls : calls[j].e <= k - 1
          /\ Returned => AllLens(result[1], k)

C2_Witness ==
    /\ Returned
    /\ config.nb_epochs >= 1
    /\ NaNLoss(result[1].train.loss[1])
    /\ ~NaNLoss(result[1].test.loss[1])
    /\ AllLens(result[1], 1)

\* C3: no training pass is executed after an evaluation whose train or test
\* loss is non-finite: every train call of epoch ep follows only evaluations
\* (epochs 0..ep) whose recorded losses are all finite.
C3_NoTrainAfterNonFiniteEval ==
    \A j \in TrainCalls :
       \A k \in 1..(calls[j].e + 1) :
          ~NaNAt(metrics, k) /\ ~InfAt(metrics, k)

AbortedRun ==
    /\ Returned
    /\ Len(result[1].test.loss) > 0
    /\ NaNAt(result[1], Len(result[1].test.loss))

\* the value returned carries something besides the metrics mapping
ReturnsIndicator ==
    \/ Len(result) > 1
    \/ DOMAIN result[1] # {"train", "test"}

\* C5 (as stated): every aborted run returns sequences strictly shorter than
\* nb_epochs + 1 together with an explicit aborted-early indicator.
C5_AbortedShorterWithIndicator ==
    AbortedRun =>
       /\ Len(result[1].train.loss) < config.nb_epochs + 1
       /\ Len(result[1].test.loss) < config.nb_epochs + 1
       /\ ReturnsIndicator

\* C5 (amended): a run aborted at epoch e returns sequences of length e + 1,
\* which is at most nb_epochs + 1 and equal to it when the abort happens at
\* the final epoch; the return value is the metrics mapping alone, and the
\* only sign of the abort is the printed message, printed exactly for
\* aborted runs.
C5_AbortedLengthAndMessage ==
    Returned =>
       /\ AbortedRun <=> Printed(NaNMessage)
       /\ AbortedRun =>
             /\ AllLens(result[1], e + 1)
             /\ e <= config.nb_epochs
             /\ (e = config.nb_epochs
                   => AllLens(result[1], config.nb_epochs + 1))
       /\ result = <<metrics>>
       /\ ~ReturnsIndicator

C5_Witness ==
    /\ AbortedRun
    /\ config.nb_epochs >= 1
    /\ e = config.nb_epochs
    /\ AllLens(result[1], config.nb_epochs + 1)
    /\ Printed(NaNMessage)

\* C6: every training pass of epoch ep has ep < nb_epochs and is immediately
\* preceded by the train-set and then the test-set evaluation of the same
\* epoch; a returned run without NaN has made exactly nb_epochs training
\* passes and its last call is the test evaluation of epoch nb_epochs.
C6_EvalBeforeTrain ==
    /\ \A j \in TrainCalls :
          /\ calls[j].e < config.nb_epochs
          /\ j > 2
          /\ calls[j - 2] = Call("update_metrics_train", calls[j].e)
          /\ calls[j - 1] = Call("update_metrics_test", calls[j].e)
    /\ (/\ Returned
        /\ config.nb_epochs >= 0
        /\ \A k \in Recorded(result[1]) : ~NaNAt(result[1], k))
       => /\ Cardinality(TrainCalls) = config.nb_epochs
          /\ Last(calls) = Call("update_metrics_test", config.nb_epochs)

C6_Witness ==
    /\ Returned
    /\ config.nb_epochs >= 1
    /\ \A k \in Recorded(result[1]) : ~NaNAt(result[1], k)
    /\ Cardinality(TrainCalls) = config.nb_epochs
    /\ Last(calls).op = "update_metrics_test"

\* C7: once train_network has built its optimizers, the list is the forward
\* optimizer alone when decorrelation_method is None, and otherwise the
\* forward optimizer followed by a plain-SGD optimizer over the
\* decorrelation parameters, whatever optimizer_type is; every training
\* pass sees this list.
C7_OptimizerList ==
    model.built =>
       /\ optimizers[1].params # "decor"
       /\ config.optimizer_type \in {"Adam", "SGD"}
             => optimizers[1] = [kind |-> config.optimizer_type,
                                 params |-> "fwd"]
       /\ IF config.decorrelation_method = None
          THEN Len(optimizers) = 1
          ELSE /\ Len(optimizers) = 2
               /\ optimizers[2] = [kind |-> "SGD", params |-> "decor"]

C7_Witness ==
    /\ TrainCalls # {}
    /\ config.decorrelation_method = "copi"
    /\ config.optimizer_type = "Adam"
    /\ optimizers = <<[kind |-> "Adam", params |-> "fwd"],
                      [kind |-> "SGD", params |-> "decor"]>>

C9_UnknownDatasetRejected ==
    config.dataset \notin RecognizedDatasets =>
       /\ ~model.built
       /\ EvalCalls = {}
       /\ TrainCalls = {}

\* C10: the model is constructed with the documented sizes of the dataset
\* name: MNIST 784/10, CIFAR10 3072/10, CIFAR100 3072/100, TIN 12288/200.
C10_DatasetSizes ==
    model.built =>
       /\ config.dataset = "MNIST"
             => model.in_size = 784 /\ model.out_size = 10
       /\ config.dataset = "CIFAR10"
             => model.in_size = 3072 /\ model.out_size = 10
       /\ config.dataset = "CIFAR100"
             => model.in_size = 3072 /\ model.out_size = 100
       /\ config.dataset = "TIN"
             => model.in_size = 12288 /\ model.out_size = 200

C10_Witness ==
    /\ model.built
    /\ config.dataset = "CIFAR100"
    /\ model.in_size = 3072
    /\ model.out_size = 100

====
